---- MODULE Spec2Model ----
(***************************************************************************)
(* State-machine model of react-voice-recorder-pro: the recording timer,   *)
(* the microphone manager, the MediaRecorder wrapper and the               *)
(* useVoiceRecorder facade that composes them.                             *)
(*                                                                         *)
(* Time is the value of Date.now() in milliseconds; it advances in steps   *)
(* of the timer's interval period under the timer driven alone, and by a   *)
(* second (ten periods) under the facade.  A state update, the render it   *)
(* causes and the effects whose dependencies changed are one step, except  *)
(* where an effect's lag behind an awaiting continuation matters (the      *)
(* recorder's engine effect), which is then its own step.                  *)
(***************************************************************************)
EXTENDS Integers, Sequences, FiniteSets, TLC

VARIABLES
  now,          \* Date.now(), milliseconds
  isRecording,  \* useMediaRecorder state / useRecordingTimer argument
  isPaused,     \* useMediaRecorder state / useRecordingTimer argument
  timer,        \* useRecordingTimer: elapsedTime, intervalRef, the three refs
  sess,         \* history: the running session's start and paused wall time
  mic,          \* useMicrophone: stream, isEnabled, permission, error, streamRef
  pending,      \* getUserMedia requests in flight: [id, owner]
  liveTracks,   \* the streams the platform handed out whose tracks are not stopped
  micHist,      \* history: requests and streams issued, the last settled enable
  mounted,      \* the component calling the hooks is mounted
  mimeType,     \* options.mimeType
  rec,          \* useMediaRecorder: chunks, error, recorderRef
  effDeps,      \* the [stream, mimeType] the engine effect last ran for
  engines,      \* the MediaRecorder instances constructed, by index
  evQueue,      \* engine events queued by the platform, in emission order
  recHist,      \* history: chunks and blobs issued, stop() calls and results
  fac,          \* useVoiceRecorder: recordedBlob, audioUrl, error, previousUrlRef
  urls,         \* history: per object URL created, the times it was revoked
  ctx,          \* useAudioContext: the context's state, isRunning
  startCtl,     \* the startRecording call in flight
  facHist,      \* history: what the last startRecording met, stop resolved
  player,       \* useAudioPlayer: isPlaying, audioRef, the element's playback
  opts,         \* the facade's options autoEnableMicrophone, autoPlayAfterRecording
  autoEn,       \* the auto-enable effect: the dependencies it last ran for; history
  autoPl,       \* the auto-play effect: its pending timeout; history
  meter,        \* useAudioMeter: the waveform buffer and the published level
  fmt           \* a number of seconds and its two renderings

timerVars == <<now, isRecording, isPaused, timer, sess>>
micVars == <<mic, pending, liveTracks, micHist>>
recVars == <<mimeType, rec, effDeps, engines, evQueue, recHist>>
facVars == <<fac, urls, ctx, startCtl, facHist>>
extVars == <<opts, autoEn, autoPl, meter, fmt>>
vars == <<now, isRecording, isPaused, timer, sess, mic, pending, liveTracks,
          micHist, mounted, mimeType, rec, effDeps, engines, evQueue, recHist,
          fac, urls, ctx, startCtl, facHist, player, extVars>>

----------------------------------------------------------------------------
(* Bounds and program constants *)

MaxTicks == 14

MaxRequests == 2

MaxEngines == 2

MaxChunks == 1

MaxStops == 2

MaxQueue == 3

MaxSeconds == 1
MaxPlaySteps == 5
MaxRecordings == 2
MaxBins == 2
MaxGraphs == 2
LevelScale == 100
MaxHours == 2

TickMs == 100

MsPerSec == 1000

Null == -1

NoStream == 0

NoEngine == 0

NoError == "null"

----------------------------------------------------------------------------
(* useRecordingTimer *)

TimerInit ==
  [elapsedTime |-> 0, intervalOn |-> FALSE, startTimeRef |-> Null,
   pausedTimeRef |-> 0, pauseStartTimeRef |-> Null]

\* The effect on [isRecording, isPaused]: the previous run's cleanup clears
\* the interval, then the body runs for the new values.
TimerEffect(t, recording, paused) ==
  IF recording /\ ~paused THEN
    IF t.startTimeRef = Null THEN
      [t EXCEPT !.startTimeRef = now, !.intervalOn = TRUE]
    ELSE IF t.pauseStartTimeRef # Null THEN
      [t EXCEPT !.pausedTimeRef = t.pausedTimeRef + (now - t.pauseStartTimeRef),
                !.pauseStartTimeRef = Null,
                !.intervalOn = TRUE]
    ELSE [t EXCEPT !.intervalOn = TRUE]
  ELSE IF paused THEN
    [t EXCEPT !.intervalOn = FALSE,
              !.pauseStartTimeRef =
                 IF t.pauseStartTimeRef = Null THEN now ELSE t.pauseStartTimeRef]
  ELSE [t EXCEPT !.intervalOn = FALSE]

\* The effect runs only when a dependency changed.
TimerRender(t, recording, paused) ==
  IF <<recording, paused>> # <<isRecording, isPaused>> THEN TimerEffect(t, recording, paused) ELSE t

\* The setInterval callback, at time `at`.
TimerTick(t, at) ==
  IF t.intervalOn /\ t.startTimeRef # Null /\ t.startTimeRef # 0 THEN
    [t EXCEPT !.elapsedTime = ((at - t.startTimeRef) - t.pausedTimeRef) \div MsPerSec]
  ELSE t

\* A reset that leaves the pause timestamp.
TimerReset_KeepsPauseStart(t) ==
  [t EXCEPT !.elapsedTime = 0, !.startTimeRef = Null, !.pausedTimeRef = 0]

TimerReset(t) ==
  [t EXCEPT !.elapsedTime = 0, !.startTimeRef = Null,
            !.pausedTimeRef = 0, !.pauseStartTimeRef = Null]

----------------------------------------------------------------------------
(* History of the recording session, for the pause-accounting property:    *)
(* t0 is the wall time the session started at (the recording flag went up, *)
(* or the timer was activated again after a reset), paused the wall time   *)
(* spent with the pause flag up since then. resetAt is the wall time of    *)
(* the last reset(), justReset that the last step was one, and cleared     *)
(* that the reset met pause time, accumulated or running.                  *)

SessInit ==
  [t0 |-> Null, paused |-> 0, resetAt |-> Null, justReset |-> FALSE,
   cleared |-> FALSE]

SessAfter(t2, startedNow) ==
  IF startedNow \/ (timer.startTimeRef = Null /\ t2.startTimeRef # Null)
    THEN [sess EXCEPT !.t0 = now, !.paused = 0, !.justReset = FALSE]
  ELSE IF t2.startTimeRef = Null
    THEN [sess EXCEPT !.t0 = Null, !.paused = 0, !.justReset = FALSE]
  ELSE [sess EXCEPT !.justReset = FALSE]

SessTick(pau) ==
  IF sess.t0 # Null /\ pau
    THEN [sess EXCEPT !.paused = sess.paused + TickMs, !.justReset = FALSE]
    ELSE [sess EXCEPT !.justReset = FALSE]

SessReset(t) ==
  [SessInit EXCEPT !.resetAt = now, !.justReset = TRUE,
                   !.cleared = t.pausedTimeRef > 0
                                 \/ (t.pauseStartTimeRef # Null /\ now > t.pauseStartTimeRef)]

----------------------------------------------------------------------------
(* useMicrophone *)

MsgPermissionDenied ==
  "Permission denied. Please allow microphone in browser site settings."
MsgNotFound == "Microphone device not found."
MsgNotReadable == "Another app is using the microphone or it is not accessible."
MsgGeneric == "Microphone permission or device error"

\* What getUserMedia may reject with: DOMExceptions by name, an object of
\* another name, an object with no name, and values that are not objects.
RejectValues ==
  { [isObject |-> TRUE, name |-> n] :
      n \in {"NotAllowedError", "SecurityError", "NotFoundError",
             "NotReadableError", "AbortError", "undefined"} }
  \cup { [isObject |-> FALSE, name |-> "NotAllowedError"],
         [isObject |-> FALSE, name |-> "undefined"] }

\* A catch block that tells NotAllowedError alone as a denial.
ErrorMessage_NoSecurity(err) ==
  IF err.isObject THEN
    IF err.name = "NotAllowedError" THEN MsgPermissionDenied
    ELSE IF err.name = "NotFoundError" THEN MsgNotFound
    ELSE IF err.name = "NotReadableError" THEN MsgNotReadable
    ELSE MsgGeneric
  ELSE MsgGeneric

\* The catch block of enable: the message for a rejection value.
ErrorMessage(err) ==
  IF err.isObject THEN
    IF err.name = "NotAllowedError" \/ err.name = "SecurityError"
      THEN MsgPermissionDenied
    ELSE IF err.name = "NotFoundError" THEN MsgNotFound
    ELSE IF err.name = "NotReadableError" THEN MsgNotReadable
    ELSE MsgGeneric
  ELSE MsgGeneric

MicInit ==
  [stream |-> NoStream, isEnabled |-> FALSE, permission |-> "unknown",
   error |-> NoError, streamRef |-> NoStream]

\* lastErr is the value the last step's rejection carried, if it was one.
NoReject == [isObject |-> FALSE, name |-> "undefined"]

MicHistInit ==
  [requests |-> 0, streams |-> 0, last |-> "none",
   lastErr |-> NoReject, promise |-> "none"]

\* forEach((t) => t.stop()) on the referenced stream
StopTracks(live, ref) == live \ {ref}

\* enable(), up to the await: clears the error, tears down the held stream.
EnableBegin(m) ==
  IF m.streamRef # NoStream THEN
    [m EXCEPT !.error = NoError, !.streamRef = NoStream,
              !.stream = NoStream, !.isEnabled = FALSE]
  ELSE [m EXCEPT !.error = NoError]

\* enable(), after getUserMedia resolved with stream s.
EnableResolved(m, s) ==
  [m EXCEPT !.streamRef = s, !.stream = s, !.isEnabled = TRUE]

\* enable(), the catch block.
EnableRejected(m, err) ==
  [m EXCEPT !.error = ErrorMessage(err), !.isEnabled = FALSE]

\* The promise enable() returns settles fulfilled on both paths: the try
\* block spans the whole body and the catch block does not rethrow.
EnablePromiseAfterReject == "fulfilled"

MicDisable(m) ==
  [m EXCEPT !.streamRef = NoStream, !.stream = NoStream, !.isEnabled = FALSE]

\* A state setter of an unmounted component changes nothing; refs still do.
MicCommit(m2) ==
  IF mounted THEN m2
  ELSE [mic EXCEPT !.streamRef = m2.streamRef]

CallEnable(owner) ==
  /\ micHist.requests < MaxRequests
  /\ mic' = MicCommit(EnableBegin(mic))
  /\ liveTracks' = StopTracks(liveTracks, mic.streamRef)
  /\ pending' = pending \cup {[id |-> micHist.requests + 1, owner |-> owner]}
  /\ micHist' = [micHist EXCEPT !.requests = @ + 1, !.last = "enable",
                                !.lastErr = NoReject]

SettleResolve(r) ==
  /\ pending' = pending \ {r}
  /\ mic' = MicCommit(EnableResolved(mic, micHist.streams + 1))
  /\ liveTracks' = liveTracks \cup {micHist.streams + 1}
  /\ micHist' = [micHist EXCEPT !.streams = @ + 1, !.last = "resolve",
                                !.lastErr = NoReject, !.promise = "fulfilled"]

SettleReject(r, err) ==
  /\ pending' = pending \ {r}
  /\ mic' = MicCommit(EnableRejected(mic, err))
  /\ liveTracks' = liveTracks
  /\ micHist' = [micHist EXCEPT !.last = "reject", !.lastErr = err,
                                !.promise = EnablePromiseAfterReject]

CallDisable ==
  /\ mic' = MicCommit(MicDisable(mic))
  /\ liveTracks' = StopTracks(liveTracks, mic.streamRef)
  /\ pending' = pending
  /\ micHist' = [micHist EXCEPT !.last = "disable", !.lastErr = NoReject]

\* The permission query's answer and the status object's change events.
PermissionValues == {"granted", "denied", "prompt", "unknown"}

SetPermission(p) ==
  mic' = MicCommit([mic EXCEPT !.permission = p])

\* The unmount effect's cleanup stops the referenced stream's tracks.
MicUnmounted ==
  /\ mounted' = FALSE
  /\ liveTracks' = StopTracks(liveTracks, mic.streamRef)

----------------------------------------------------------------------------
(* useMediaRecorder *)

DefaultMimeType == "audio/webm"

MimeTypes == {DefaultMimeType, "audio/mp4"}

MsgCreationFailed == "MediaRecorder creation failed"
MsgRecordingError == "Recording error"
MsgRecStartFailed == "Recording start failed"

RecInit == [chunks |-> <<>>, error |-> NoError, recorderRef |-> NoEngine]

\* resolve(null)
NoBlob == [id |-> 0, parts |-> <<>>, type |-> "null"]

RecHistInit ==
  [chunksIssued |-> 0, blobs |-> 0, stopCalls |-> 0,
   constructs |-> 0,
   last |-> "none", stopResult |-> "none", blob |-> NoBlob, delivered |-> <<>>]

\* The history keeps the result of a stop() until the next step of the hook.
Forget(h) ==
  [h EXCEPT !.last = "other", !.stopResult = "none", !.blob = NoBlob,
            !.delivered = <<>>]

\* rec.onstop as the engine effect installs it
HandlerA == [kind |-> "A", captured |-> <<>>, type |-> "null", facade |-> FALSE]

\* r.onstop as stop() installs it: it closes over the chunks and mimeType of
\* the render stop was created in, and over the promise's resolve.
HandlerB(captured, type, facade) ==
  [kind |-> "B", captured |-> captured, type |-> type, facade |-> facade]

\* delivered is history: the non-empty chunks the engine has delivered since
\* its start() and before its stop event; stoppedBy is history: "cleanup"
\* from the effect's cleanup stopping the engine to its stop event.
NewEngine(s) ==
  [state |-> "inactive", onstop |-> HandlerA, stream |-> s,
   delivered |-> <<>>, resolved |-> TRUE, stoppedBy |-> "none"]

Event(e, type, chunk) == [eng |-> e, type |-> type, chunk |-> chunk]

\* new Blob(chunks, { type: mimeType })
NewBlob(id, parts, type) == [id |-> id, parts |-> parts, type |-> type]

\* The data the platform flushes: a chunk of size 0, or the next chunk.
FlushChoices == {0} \cup (IF recHist.chunksIssued < MaxChunks
                           THEN {recHist.chunksIssued + 1} ELSE {})

\* MediaRecorder.stop(): the state becomes inactive at once; the final
\* dataavailable and the stop event are queued, in that order.
EngineStopEvents(e, c) == <<Event(e, "data", c), Event(e, "stop", 0)>>

\* Room for n more queued events (the model's bound on the event queue).
QueueRoom(n) == Len(evQueue) + n <= MaxQueue

\* A state setter of an unmounted component changes nothing.
Commit(new, old) == IF mounted THEN new ELSE old

\* The two flags and the timer effect that follows their render.
Flags(t, r, p) ==
  /\ isRecording' = Commit(r, isRecording)
  /\ isPaused' = Commit(p, isPaused)
  /\ timer' = Commit(TimerRender(t, r, p), timer)

\* ondataavailable: a chunk is kept when it has data and a size above 0.
OnDataAvailable(chunks, c) == IF c > 0 THEN Append(chunks, c) ELSE chunks

\* start(): clears error, chunks and the pause flag, then starts the engine
\* when there is one and it is inactive; a throw of r.start sets the error.
RecStart(throws) ==
  LET r == rec.recorderRef
      idle == r # NoEngine /\ engines[r].state = "inactive" IN
  /\ QueueRoom(1)
  /\ throws => idle
  /\ rec' = Commit([rec EXCEPT !.chunks = <<>>,
                               !.error = IF throws THEN MsgRecStartFailed ELSE NoError],
                   rec)
  /\ Flags(timer, isRecording, FALSE)
  /\ IF idle /\ ~throws
       THEN /\ engines' = [engines EXCEPT ![r].state = "recording",
                                          ![r].delivered = <<>>,
                                          ![r].stoppedBy = "none"]
            /\ evQueue' = Append(evQueue, Event(r, "start", 0))
       ELSE UNCHANGED <<engines, evQueue>>

\* A pause() that pauses whatever engine is active.
PauseApplies_AnyActive(r) == r # NoEngine /\ engines[r].state # "inactive"

\* pause() acts on a recording engine, resume() on a paused one.
PauseApplies(r) == r # NoEngine /\ engines[r].state = "recording"

ResumeApplies(r) == r # NoEngine /\ engines[r].state = "paused"

RecPause ==
  LET r == rec.recorderRef IN
  /\ QueueRoom(1)
  /\ IF PauseApplies(r)
       THEN /\ engines' = [engines EXCEPT ![r].state = "paused"]
            /\ evQueue' = Append(evQueue, Event(r, "pause", 0))
       ELSE UNCHANGED <<engines, evQueue>>
  /\ UNCHANGED <<rec, isRecording, isPaused, timer>>

RecResume ==
  LET r == rec.recorderRef IN
  /\ QueueRoom(1)
  /\ IF ResumeApplies(r)
       THEN /\ engines' = [engines EXCEPT ![r].state = "recording"]
            /\ evQueue' = Append(evQueue, Event(r, "resume", 0))
       ELSE UNCHANGED <<engines, evQueue>>
  /\ UNCHANGED <<rec, isRecording, isPaused, timer>>

\* A stop() that resolves null only when there is no engine.
StopIdle_NoEngineOnly(r) == r = NoEngine

\* stop() resolves null when it has nothing to stop.
StopIdle(r) == r = NoEngine \/ engines[r].state = "inactive"

\* stop(): with an active engine it replaces r.onstop and stops the engine,
\* the promise staying pending until the stop event; otherwise it resolves
\* null and touches nothing.
RecStop(facade, c) ==
  LET r == rec.recorderRef IN
  /\ recHist.stopCalls < MaxStops
  /\ QueueRoom(2)
  /\ IF StopIdle(r)
       THEN /\ c = 0
            /\ UNCHANGED <<engines, evQueue>>
            /\ recHist' = [recHist EXCEPT !.stopCalls = @ + 1, !.last = "stopIdle",
                                          !.stopResult = "null", !.blob = NoBlob,
                                          !.delivered = <<>>]
       ELSE /\ engines' = [engines EXCEPT
                             ![r].state = "inactive",
                             ![r].onstop = HandlerB(rec.chunks, mimeType, facade),
                             ![r].resolved = FALSE]
            /\ evQueue' = evQueue \o EngineStopEvents(r, c)
            /\ recHist' = [recHist EXCEPT
                             !.stopCalls = @ + 1, !.last = "stop",
                             !.stopResult = "pending", !.blob = NoBlob,
                             !.delivered = <<>>,
                             !.chunksIssued = IF c > 0 THEN c ELSE @]
  /\ UNCHANGED <<rec, isRecording, isPaused, timer>>

\* A reset() that clears the error as well.
RecReset_ClearsError(t) ==
  /\ rec' = Commit([rec EXCEPT !.chunks = <<>>, !.error = NoError], rec)
  /\ Flags(t, isRecording, FALSE)

\* reset(): clears the chunks and the pause flag.
RecReset(t) ==
  /\ rec' = Commit([rec EXCEPT !.chunks = <<>>], rec)
  /\ Flags(t, isRecording, FALSE)

\* A cleanup that drops the engine without stopping it.
CleanupStops_Never(r) == FALSE

\* The engine effect, run for a changed [stream, mimeType]: the previous
\* run's cleanup (there is one when that run had a stream) stops and drops
\* the engine the ref holds, then the body constructs the next engine.
EffectsSettled == effDeps = mic.stream

CleanupStops(r) == effDeps # NoStream /\ r # NoEngine /\ engines[r].state # "inactive"

EngineCleanup(c) ==
  LET r == rec.recorderRef IN
  IF CleanupStops(r)
    THEN [eng |-> [engines EXCEPT ![r].state = "inactive",
                                  ![r].stoppedBy = "cleanup"],
          ev |-> evQueue \o EngineStopEvents(r, c)]
    ELSE [eng |-> engines, ev |-> evQueue]

EngineEffect(c, ok) ==
  LET after == EngineCleanup(c) IN
  /\ mounted
  /\ ~EffectsSettled
  /\ QueueRoom(2)
  /\ c > 0 => CleanupStops(rec.recorderRef)
  /\ ~ok => mic.stream # NoStream
  /\ effDeps' = mic.stream
  /\ evQueue' = after.ev
  /\ IF mic.stream = NoStream THEN
       /\ engines' = after.eng
       /\ rec' = [rec EXCEPT !.recorderRef = NoEngine]
     ELSE IF ok THEN
       /\ engines' = Append(after.eng, NewEngine(mic.stream))
       /\ rec' = [rec EXCEPT !.recorderRef = Len(engines) + 1]
     ELSE
       /\ engines' = after.eng
       /\ rec' = [rec EXCEPT !.recorderRef = NoEngine, !.error = MsgCreationFailed]
  /\ recHist' = [Forget(recHist) EXCEPT
                                !.chunksIssued = IF c > 0 THEN c ELSE @,
                                !.constructs = IF mic.stream # NoStream THEN @ + 1 ELSE @]
  /\ UNCHANGED <<isRecording, isPaused, timer>>

\* The platform delivers a timeslice's data of a recording engine.
EngineData(e) ==
  /\ engines[e].state = "recording"
  /\ recHist.chunksIssued < MaxChunks
  /\ QueueRoom(1)
  /\ evQueue' = Append(evQueue, Event(e, "data", recHist.chunksIssued + 1))
  /\ recHist' = [Forget(recHist) EXCEPT !.chunksIssued = @ + 1]
  /\ UNCHANGED <<rec, engines, isRecording, isPaused, timer>>

\* The engine fails while active: the platform makes it inactive and queues
\* the error event, the data gathered and the stop event.
EngineFails(e, c) ==
  /\ engines[e].state # "inactive"
  /\ QueueRoom(3)
  /\ engines' = [engines EXCEPT ![e].state = "inactive"]
  /\ evQueue' = <<Event(e, "error", 0)>> \o EngineStopEvents(e, c)
  /\ recHist' = [Forget(recHist) EXCEPT !.chunksIssued = IF c > 0 THEN c ELSE @]
  /\ UNCHANGED <<rec, isRecording, isPaused, timer>>

\* The stop event under the handler stop() installed: the promise resolves
\* (once) with a blob of the chunks the handler closed over.
ResolvedBlob(e) ==
  NewBlob(recHist.blobs + 1, engines[e].onstop.captured, engines[e].onstop.type)

\* The next queued engine event reaches its handler.
DispatchData(ev) ==
  /\ rec' = Commit([rec EXCEPT !.chunks = OnDataAvailable(rec.chunks, ev.chunk)], rec)
  /\ engines' = [engines EXCEPT ![ev.eng].delivered = OnDataAvailable(@, ev.chunk)]
  /\ recHist' = Forget(recHist)
  /\ UNCHANGED <<isRecording, isPaused, timer>>

\* onerror
DispatchError(ev) ==
  /\ rec' = Commit([rec EXCEPT !.error = MsgRecordingError], rec)
  /\ recHist' = Forget(recHist)
  /\ UNCHANGED <<engines, isRecording, isPaused, timer>>

DispatchFlag(ev) ==
  /\ CASE ev.type = "start" -> Flags(timer, TRUE, isPaused)
       [] ev.type = "pause" -> Flags(timer, isRecording, TRUE)
       [] ev.type = "resume" -> Flags(timer, isRecording, FALSE)
       [] ev.type = "stop" -> Flags(timer, FALSE, FALSE)
  /\ recHist' = Forget(recHist)
  /\ engines' = IF ev.type = "stop"
                  THEN [engines EXCEPT ![ev.eng].delivered = <<>>,
                                       ![ev.eng].stoppedBy = "none"]
                  ELSE engines
  /\ UNCHANGED rec

DispatchStopB(ev) ==
  /\ engines' = [engines EXCEPT ![ev.eng].resolved = TRUE,
                                ![ev.eng].delivered = <<>>,
                                ![ev.eng].stoppedBy = "none"]
  /\ IF engines[ev.eng].resolved
       THEN recHist' = Forget(recHist)
       ELSE recHist' = [recHist EXCEPT
                          !.last = "stopResolved", !.stopResult = "blob",
                          !.blobs = @ + 1, !.blob = ResolvedBlob(ev.eng),
                          !.delivered = engines[ev.eng].delivered]
  /\ UNCHANGED <<rec, isRecording, isPaused, timer>>

----------------------------------------------------------------------------
(* useAudioContext *)

CtxInit == [state |-> "suspended", isRunning |-> FALSE]

\* ctx.resume() fulfilled: the statechange listener mirrors the state.
CtxResumed(c) == [c EXCEPT !.state = "running", !.isRunning = TRUE]

\* The mount effect's cleanup closes the context.
CtxClosed(c) == [c EXCEPT !.state = "closed"]

----------------------------------------------------------------------------
(* useAudioPlayer *)

\* audioRef tells whether an audio element is attached; elPlaying is the
\* element's own playback; ended is history: the element played to its end
\* and no playPause, reset or new element came since.
PlayerInit ==
  [isPlaying |-> FALSE, audioRef |-> FALSE, elPlaying |-> FALSE, ended |-> FALSE]

\* playPause(): nothing without an element; else it pauses or plays the
\* element and flips isPlaying.  `started` tells whether the promise play()
\* returns fulfils; playPause does not look at it.
PlayPause(p, started) ==
  IF ~p.audioRef THEN p
  ELSE IF p.isPlaying
    THEN [p EXCEPT !.isPlaying = FALSE, !.elPlaying = FALSE, !.ended = FALSE]
  ELSE [p EXCEPT !.isPlaying = TRUE, !.elPlaying = started, !.ended = FALSE]

\* A resetPlayer that leaves the playback flag alone.
ResetPlayer_KeepsPlaying(p) == p

\* resetPlayer(): pauses the element when playing, clears isPlaying.
ResetPlayer(p) ==
  [p EXCEPT !.isPlaying = FALSE,
            !.elPlaying = IF p.isPlaying /\ p.audioRef THEN FALSE ELSE @,
            !.ended = FALSE]

----------------------------------------------------------------------------
(* useVoiceRecorder *)

NoUrl == 0

MsgFailedToStart == "Failed to start recording."

\* autoEnableMicrophone = false, autoPlayAfterRecording = false
DefaultOptions == [autoEnableMicrophone |-> FALSE, autoPlayAfterRecording |-> FALSE]

\* urlBlob is history: the id of the blob audioUrl was created from.
FacInit ==
  [recordedBlob |-> NoBlob, audioUrl |-> NoUrl, error |-> NoError,
   previousUrlRef |-> NoUrl, urlBlob |-> NoBlob.id]

\* A startRecording call in flight: where it stands, the isRunning its
\* closure holds, and (history) the step of it that failed.
StartIdle == [pc |-> "idle", sawRunning |-> FALSE, failed |-> "none"]

\* What a reset or disableMicrophone call found: the stream held, an engine
\* recording or paused, the player playing, a blob stored, time elapsed.
NoPre ==
  [held |-> NoStream, recording |-> FALSE, playing |-> FALSE, blob |-> FALSE,
   elapsed |-> FALSE]

FacHistInit ==
  [last |-> "other", delegated |-> FALSE, failed |-> "none",
   micAtStart |-> FALSE, ctxAtStart |-> FALSE, stopped |-> FALSE,
   abnormal |-> "none", pre |-> NoPre]

\* The history keeps what a startRecording call met until the next step.
FacForget(h) ==
  [h EXCEPT !.last = "other", !.delegated = FALSE, !.failed = "none",
            !.micAtStart = FALSE, !.ctxAtStart = FALSE, !.abnormal = "none",
            !.pre = NoPre]

\* URL.revokeObjectURL(u): urls counts the revocations of each URL created.
Revoke(us, u) == IF u = NoUrl THEN us ELSE [us EXCEPT ![u] = @ + 1]

\* The audio URL effect, run for a changed recordedBlob.
UrlEffect_KeepsPrevious(f, us, blob) ==
  IF blob # NoBlob THEN
    [urls |-> Append(us, 0),
     fac |-> [f EXCEPT !.recordedBlob = blob, !.audioUrl = Len(us) + 1,
                       !.previousUrlRef = Len(us) + 1, !.urlBlob = blob.id]]
  ELSE
    [urls |-> Revoke(us, f.previousUrlRef),
     fac |-> [f EXCEPT !.recordedBlob = blob, !.audioUrl = NoUrl,
                       !.previousUrlRef = NoUrl, !.urlBlob = NoBlob.id]]

\* An effect that keeps the URL it has when a blob replaces a blob.
UrlEffect_KeepsUrl(f, us, blob) ==
  IF blob # NoBlob THEN
    IF f.previousUrlRef # NoUrl
      THEN [urls |-> us, fac |-> [f EXCEPT !.recordedBlob = blob]]
      ELSE [urls |-> Append(us, 0),
            fac |-> [f EXCEPT !.recordedBlob = blob, !.audioUrl = Len(us) + 1,
                              !.previousUrlRef = Len(us) + 1, !.urlBlob = blob.id]]
  ELSE
    [urls |-> Revoke(us, f.previousUrlRef),
     fac |-> [f EXCEPT !.recordedBlob = blob, !.audioUrl = NoUrl,
                       !.previousUrlRef = NoUrl, !.urlBlob = NoBlob.id]]

UrlEffect(f, us, blob) ==
  IF blob # NoBlob THEN
    [urls |-> Append(Revoke(us, f.previousUrlRef), 0),
     fac |-> [f EXCEPT !.recordedBlob = blob, !.audioUrl = Len(us) + 1,
                       !.previousUrlRef = Len(us) + 1, !.urlBlob = blob.id]]
  ELSE
    [urls |-> Revoke(us, f.previousUrlRef),
     fac |-> [f EXCEPT !.recordedBlob = blob, !.audioUrl = NoUrl,
                       !.previousUrlRef = NoUrl, !.urlBlob = NoBlob.id]]

\* setRecordedBlob(blob) and the render after it: the effect runs when the
\* blob is another object than the one held.
SetRecordedBlob(f, us, blob) ==
  IF blob = f.recordedBlob THEN [urls |-> us, fac |-> f]
  ELSE UrlEffect(f, us, blob)

\* The error merge effect: micError || recorderError || error.
Merge(micError, recorderError, error) ==
  IF micError # NoError THEN micError
  ELSE IF recorderError # NoError THEN recorderError
  ELSE error

\* The facade's state after a handler left it at f and the effects ran.
FacCommit(f) ==
  fac' = Commit([f EXCEPT !.error = Merge(mic'.error, rec'.error, f.error)], fac)

ApplyBlob(f, blob) ==
  LET out == SetRecordedBlob(f, urls, blob) IN
  /\ urls' = Commit(out.urls, urls)
  /\ FacCommit(out.fac)

\* The unmount effect's cleanup: revokes the URL the ref holds.
UrlUnmount(f, us) == Revoke(us, f.previousUrlRef)

\* The timer effect's cleanup clears the interval.
TimerCleanup(t) == [t EXCEPT !.intervalOn = FALSE]

\* startRecording delegates to the recorder's start(): the history notes
\* what it met.
Delegate(throws, prior, ctxState) ==
  /\ RecStart(throws)
  /\ recHist' = Forget(recHist)
  /\ startCtl' = StartIdle
  /\ facHist' = [facHist EXCEPT
                   !.last = "startDone", !.delegated = TRUE,
                   !.failed = IF throws THEN "start" ELSE prior,
                   !.micAtStart = mic.isEnabled /\ mic.streamRef \in liveTracks,
                   !.ctxAtStart = ctxState = "running",
                   !.stopped = FALSE]

PreState ==
  [held |-> mic.streamRef,
   recording |-> rec.recorderRef # NoEngine
                   /\ engines[rec.recorderRef].state # "inactive",
   playing |-> player.isPlaying,
   blob |-> fac.recordedBlob # NoBlob,
   elapsed |-> timer.elapsedTime # 0]

\* reset(): resetRecorder, resetPlayer, resetTimer, setRecordedBlob(null),
\* setError(null).
ResetBody(caller) ==
  /\ RecReset(TimerReset(timer))
  /\ player' = ResetPlayer(player)
  /\ recHist' = Forget(recHist)
  /\ facHist' = [FacForget(facHist) EXCEPT !.stopped = FALSE, !.last = caller,
                                           !.pre = PreState]
  /\ ApplyBlob([fac EXCEPT !.error = NoError], NoBlob)

----------------------------------------------------------------------------
(* useVoiceRecorder: the auto-enable effect *)

\* deps are the [isMicrophoneEnabled, permission] the effect last ran for
\* (none before the mount); triggers, transitions and at are history: the
\* enables the effect issued, the times its condition became true, and the
\* microphone state the last trigger saw.
AutoEnInit == [deps |-> <<>>, triggers |-> 0, transitions |-> 0, at |-> <<>>]

AutoDeps(m) == <<m.isEnabled, m.permission>>

\* An effect condition that does not look at the permission.
AutoCondition_AnyPermission(o, m) ==
  o.autoEnableMicrophone /\ ~m.isEnabled

\* autoEnableMicrophone && !isMicrophoneEnabled && permission === 'prompt'
AutoCondition(o, m) ==
  o.autoEnableMicrophone /\ ~m.isEnabled /\ m.permission = "prompt"

AutoSettled == autoEn.deps = AutoDeps(mic)

\* History: a step of the microphone that brings it, with the option set, to
\* permission 'prompt' and disabled.
PromptAndDisabled(o, m) ==
  o.autoEnableMicrophone /\ m.permission = "prompt" /\ ~m.isEnabled

AutoNoted ==
  autoEn' = [autoEn EXCEPT
               !.transitions = IF ~PromptAndDisabled(opts, mic)
                                    /\ PromptAndDisabled(opts, mic')
                                 THEN @ + 1 ELSE @]

\* The effect, run for changed dependencies.
AutoEnableEffect ==
  /\ mounted
  /\ ~AutoSettled
  /\ IF AutoCondition(opts, mic)
       THEN /\ CallEnable("auto")
            /\ autoEn' = [autoEn EXCEPT !.deps = AutoDeps(mic'), !.triggers = @ + 1,
                                        !.at = AutoDeps(mic)]
       ELSE /\ UNCHANGED micVars
            /\ autoEn' = [autoEn EXCEPT !.deps = AutoDeps(mic)]

----------------------------------------------------------------------------
(* useVoiceRecorder: the auto-play effect *)

\* setTimeout(() => playPause(), 100)
AutoPlayDelayMs == 100

\* deps are the [recordedBlob, isPlaying] the effect last ran for (none
\* before the mount); timer is the time the pending timeout is due at.
\* since and fired are history: the time from which a blob has been stored
\* with the player not playing, and the timeouts that ran; played counts the
\* timeouts that started the element, and userPaused tells that the consumer
\* paused playback with playPause and has not called it again, no recording
\* having been stored since.
AutoPlInit ==
  [deps |-> <<>>, timer |-> Null, since |-> Null, fired |-> 0, played |-> 0,
   userPaused |-> FALSE]

AutoPlayDeps(f, p) == <<f.recordedBlob.id, p.isPlaying>>

\* autoPlayAfterRecording && recordedBlob && !isPlaying
AutoPlayCondition(o, f, p) ==
  o.autoPlayAfterRecording /\ f.recordedBlob # NoBlob /\ ~p.isPlaying

AutoPlaySettled == autoPl.deps = AutoPlayDeps(fac, player)

\* An effect that returns no cleanup.
AutoPlayCleanup_KeepsTimer(a) == a

\* return () => clearTimeout(timer)
AutoPlayCleanup(a) == [a EXCEPT !.timer = Null]

\* The effect, run for changed dependencies at time `at`: the previous
\* run's cleanup, then the body.
AutoPlayEffect(a, o, f, p, at) ==
  LET cleaned == AutoPlayCleanup(a) IN
  [cleaned EXCEPT !.deps = AutoPlayDeps(f, p),
                  !.timer = IF AutoPlayCondition(o, f, p)
                              THEN at + AutoPlayDelayMs ELSE @]

\* The timeout's callback: playPause of the render the effect ran in, where
\* isPlaying was false.
AutoPlayFire(p, started) ==
  IF ~p.audioRef THEN p
  ELSE [p EXCEPT !.isPlaying = TRUE, !.elPlaying = started, !.ended = FALSE]

\* History: a blob stored and the player not playing, since when.
Playable(f, p) == f.recordedBlob # NoBlob /\ ~p.isPlaying

AutoPlayNotedWith(paused) ==
  autoPl' = [autoPl EXCEPT
               !.since = IF ~Playable(fac', player') THEN Null
                         ELSE IF Playable(fac, player) THEN @ ELSE now,
               !.userPaused = paused]

AutoPlayNoted == AutoPlayNotedWith(autoPl.userPaused)

----------------------------------------------------------------------------
(* useAudioMeter *)

\* A Uint8Array element, and the value the loop subtracts and divides by.
ByteMax == 255
SampleMidpoint == 128

\* The sample values the platform's waveform is drawn from.
Samples ==
  {0, 1, SampleMidpoint - 1, SampleMidpoint, SampleMidpoint + 1, ByteMax}

\* The waveforms of n samples the model draws: every mix of Samples, and
\* every byte value held throughout.
Waves(n) ==
  [1..n -> Samples] \cup {[i \in 1..n |-> d] : d \in 0..ByteMax}

NoGraph == 0

\* raf: rafRef holds a frame callback's id; data: the Uint8Array of
\* frequencyBinCount elements; sumSquares: the loop's sum, in units of
\* 1/SampleMidpoint^2; level: the published level, in units of 1/LevelScale.
\* graph: the source and analyser sourceRef and analyserRef hold, numbered
\* by construction; input: a context and a stream are both given.
\* connected and frames are the platform's side: the graphs whose nodes are
\* connected and those with a frame callback scheduled. built and published
\* are history: the graphs constructed, and the graph whose callback
\* published the level in the last step.
MeterInit ==
  [raf |-> FALSE, data |-> <<>>, sumSquares |-> 0, level |-> 0,
   graph |-> NoGraph, input |-> FALSE, connected |-> {}, frames |-> {},
   built |-> 0, published |-> NoGraph]

\* A sample read as it is.
Deviation_Unsigned(d) == d

\* data[i] - 128, the numerator of v
Deviation(d) == d - SampleMidpoint

\* for (i = 0; i < data.length; i++) sumSquares += v * v
RECURSIVE SumSquares(_)
SumSquares(data) ==
  IF data = <<>> THEN 0
  ELSE SumSquares(SubSeq(data, 1, Len(data) - 1))
         + Deviation(data[Len(data)]) * Deviation(data[Len(data)])

\* The largest r in lo..hi with r * r <= n.
RECURSIVE SqrtBetween(_, _, _)
SqrtBetween(n, lo, hi) ==
  IF lo >= hi THEN lo
  ELSE LET mid == (lo + hi + 1) \div 2 IN
       IF mid * mid <= n THEN SqrtBetween(n, mid, hi)
       ELSE SqrtBetween(n, lo, mid - 1)

\* Math.sqrt(sumSquares / data.length), to 1/LevelScale
Rms(sum, n) ==
  LET scaled == (sum * LevelScale * LevelScale)
                  \div (n * SampleMidpoint * SampleMidpoint) IN
  SqrtBetween(scaled, 0, scaled)

\* A cleanup that leaves the scheduled frame.
MeterCleanup_LeavesFrame(m) ==
  [m EXCEPT !.raf = FALSE, !.level = 0,
            !.connected = @ \ {m.graph}, !.graph = NoGraph,
            !.published = NoGraph]

\* cleanup(): cancels the frame, disconnects the nodes, setLevel(0)
MeterCleanup(m) ==
  [m EXCEPT !.raf = FALSE, !.level = 0,
            !.frames = IF m.raf THEN @ \ {m.graph} ELSE @,
            !.connected = @ \ {m.graph}, !.graph = NoGraph,
            !.published = NoGraph]

\* The effect's body for a context and a stream: cleanup(), a new source
\* connected to a new analyser with n bins, a zeroed buffer, the first
\* frame scheduled.
MeterEffect(m, n) ==
  [MeterCleanup(m) EXCEPT !.raf = TRUE, !.data = [i \in 1..n |-> 0],
                          !.sumSquares = 0,
                          !.input = TRUE,
                          !.graph = m.built + 1, !.built = m.built + 1,
                          !.connected = @ \cup {m.built + 1},
                          !.frames = @ \cup {m.built + 1}]

\* tick: getByteTimeDomainData fills the buffer with wave.
MeterTick(m, wave) ==
  [m EXCEPT !.data = wave, !.sumSquares = SumSquares(wave),
            !.level = Rms(SumSquares(wave), Len(wave)), !.raf = TRUE]

----------------------------------------------------------------------------
(* formatTime of useRecordingTimer, formatDuration of utils *)

SecPerHour == 3600
SecPerMin == 60

\* JavaScript's %: the remainder has the sign of the dividend.
Rem(a, b) == IF a >= 0 THEN a % b ELSE 0 - ((0 - a) % b)

\* str.padStart(2, '0'), for a string that is not empty
PadStart2(str) == IF Len(str) < 2 THEN "0" \o str ELSE str

\* formatTime(seconds); \div is Math.floor of the quotient
FormatTime(seconds) ==
  LET hours == seconds \div SecPerHour
      mins == Rem(seconds, SecPerHour) \div SecPerMin
      secs == Rem(seconds, SecPerMin)
  IN PadStart2(ToString(hours)) \o ":" \o PadStart2(ToString(mins)) \o ":"
       \o PadStart2(ToString(secs))

\* A formatDuration without the hours test.
FormatDuration_AlwaysHours(seconds) ==
  LET hours == seconds \div SecPerHour
      minutes == Rem(seconds, SecPerHour) \div SecPerMin
      secs == Rem(seconds, SecPerMin)
  IN ToString(hours) \o ":" \o PadStart2(ToString(minutes)) \o ":"
       \o PadStart2(ToString(secs))

\* formatDuration(seconds)
FormatDuration(seconds) ==
  LET hours == seconds \div SecPerHour
      minutes == Rem(seconds, SecPerHour) \div SecPerMin
      secs == Rem(seconds, SecPerMin)
  IN IF hours > 0
       THEN ToString(hours) \o ":" \o PadStart2(ToString(minutes)) \o ":"
              \o PadStart2(ToString(secs))
       ELSE ToString(minutes) \o ":" \o PadStart2(ToString(secs))

\* formattedTime: formatTime(elapsedTime)
FormattedTime(t) == FormatTime(t.elapsedTime)

\* The numbers of seconds the formatters are applied to.
FieldValues == {0, 1, 2, 9, 10, 59}

FormatInputs ==
  {h * SecPerHour + m * SecPerMin + sec :
     h \in 0..MaxHours, m \in FieldValues, sec \in FieldValues}

\* An input, and once applied its two renderings.
FmtInit == [seconds |-> 0, applied |-> FALSE, formatTime |-> "", formatDuration |-> ""]

----------------------------------------------------------------------------
(* The microphone hook driven directly *)

MEnable ==
  /\ mounted
  /\ CallEnable("user")
  /\ UNCHANGED <<timerVars, mounted, recVars, facVars, player, extVars>>

MResolve ==
  /\ \E r \in pending : SettleResolve(r)
  /\ UNCHANGED <<timerVars, mounted, recVars, facVars, player, extVars>>

MReject ==
  /\ \E r \in pending : \E err \in RejectValues : SettleReject(r, err)
  /\ UNCHANGED <<timerVars, mounted, recVars, facVars, player, extVars>>

MDisable ==
  /\ mounted
  /\ CallDisable
  /\ UNCHANGED <<timerVars, mounted, recVars, facVars, player, extVars>>

MPermission ==
  /\ mounted
  /\ \E p \in PermissionValues : p # mic.permission /\ SetPermission(p)
  /\ UNCHANGED <<pending, liveTracks, micHist>>
  /\ UNCHANGED <<timerVars, mounted, recVars, facVars, player, extVars>>

MUnmount ==
  /\ mounted
  /\ MicUnmounted
  /\ UNCHANGED <<mic, pending, micHist>>
  /\ UNCHANGED <<timerVars, recVars, facVars, player, extVars>>

NextMic == MEnable \/ MResolve \/ MReject \/ MDisable \/ MPermission \/ MUnmount

----------------------------------------------------------------------------
(* The timer hook driven directly through its two arguments *)

SetFlags(t, recording, paused) ==
  /\ isRecording' = recording
  /\ isPaused' = paused
  /\ timer' = TimerRender(t, recording, paused)
  /\ sess' = SessAfter(timer', recording /\ ~isRecording)

TStart ==
  /\ ~isRecording
  /\ SetFlags(timer, TRUE, FALSE)
  /\ UNCHANGED <<now, micVars, mounted, recVars, facVars, player, extVars>>

TPause ==
  /\ isRecording /\ ~isPaused
  /\ SetFlags(timer, TRUE, TRUE)
  /\ UNCHANGED <<now, micVars, mounted, recVars, facVars, player, extVars>>

TResume ==
  /\ isRecording /\ isPaused
  /\ SetFlags(timer, TRUE, FALSE)
  /\ UNCHANGED <<now, micVars, mounted, recVars, facVars, player, extVars>>

TStop ==
  /\ isRecording
  /\ SetFlags(timer, FALSE, FALSE)
  /\ UNCHANGED <<now, micVars, mounted, recVars, facVars, player, extVars>>

TReset ==
  /\ timer' = TimerReset(timer)
  /\ sess' = SessReset(timer)
  /\ UNCHANGED <<now, isRecording, isPaused, micVars, mounted, recVars, facVars, player, extVars>>

Tick ==
  /\ now < MaxTicks * TickMs
  /\ now' = now + TickMs
  /\ timer' = TimerTick(timer, now')
  /\ sess' = SessTick(isPaused)
  /\ UNCHANGED <<isRecording, isPaused, micVars, mounted, recVars, facVars, player, extVars>>

----------------------------------------------------------------------------
(* The recorder hook driven directly; its stream argument is mic.stream *)

RStream ==
  /\ mounted /\ EffectsSettled
  /\ \E s \in {NoStream, recHist.constructs + 1} :
       /\ s # mic.stream
       /\ s # NoStream => recHist.constructs < MaxEngines
       /\ mic' = [mic EXCEPT !.stream = s]
  /\ UNCHANGED <<timerVars, pending, liveTracks, micHist, mounted, recVars, facVars, player, extVars>>

Start ==
  /\ mounted /\ EffectsSettled
  /\ \E throws \in BOOLEAN : RecStart(throws)
  /\ recHist' = [Forget(recHist) EXCEPT !.last = "start"]
  /\ UNCHANGED <<now, sess, micVars, mounted, mimeType, effDeps, facVars, player, extVars>>

Pause ==
  /\ mounted /\ EffectsSettled
  /\ RecPause
  /\ recHist' = [Forget(recHist) EXCEPT !.last = "pause"]
  /\ UNCHANGED <<now, sess, micVars, mounted, mimeType, effDeps, facVars, player, extVars>>

Resume ==
  /\ mounted /\ EffectsSettled
  /\ RecResume
  /\ recHist' = [Forget(recHist) EXCEPT !.last = "resume"]
  /\ UNCHANGED <<now, sess, micVars, mounted, mimeType, effDeps, facVars, player, extVars>>

Stop ==
  /\ mounted /\ EffectsSettled
  /\ \E c \in FlushChoices : RecStop(FALSE, c)
  /\ UNCHANGED <<now, sess, micVars, mounted, mimeType, effDeps, facVars, player, extVars>>

Reset ==
  /\ mounted /\ EffectsSettled
  /\ RecReset(timer)
  /\ recHist' = [Forget(recHist) EXCEPT !.last = "reset"]
  /\ UNCHANGED <<now, sess, micVars, mounted, mimeType, effDeps, engines, evQueue, facVars, player, extVars>>

RunEngineEffect ==
  /\ \E c \in FlushChoices : \E ok \in BOOLEAN : EngineEffect(c, ok)
  /\ UNCHANGED <<now, sess, micVars, mounted, mimeType, facVars, player, extVars>>

Timeslice ==
  /\ \E e \in 1 .. Len(engines) : EngineData(e)
  /\ UNCHANGED <<now, sess, micVars, mounted, mimeType, effDeps, facVars, player, extVars>>

Fails ==
  /\ \E e \in 1 .. Len(engines) : \E c \in FlushChoices : EngineFails(e, c)
  /\ UNCHANGED <<now, sess, micVars, mounted, mimeType, effDeps, facVars, player, extVars>>

Dispatch ==
  /\ evQueue # <<>>
  /\ evQueue' = Tail(evQueue)
  /\ LET ev == Head(evQueue) IN
       IF ev.type = "data" THEN DispatchData(ev)
       ELSE IF ev.type = "error" THEN DispatchError(ev)
       ELSE IF ev.type = "stop" /\ engines[ev.eng].onstop.kind = "B"
         THEN DispatchStopB(ev)
       ELSE DispatchFlag(ev)
  /\ UNCHANGED <<now, sess, micVars, mounted, mimeType, effDeps, facVars, player, extVars>>

NextRec ==
  RStream \/ Start \/ Pause \/ Resume \/ Stop \/ Reset \/ RunEngineEffect
    \/ Timeslice \/ Fails \/ Dispatch

----------------------------------------------------------------------------
(* The facade, useVoiceRecorder *)

\* startRecording, up to its first await.
StartRecording ==
  /\ UNCHANGED <<player, extVars>>
  /\ mounted /\ EffectsSettled
  /\ startCtl.pc = "idle"
  /\ IF ~mic.isEnabled THEN
       /\ CallEnable("start")
       /\ startCtl' = [pc |-> "awaitEnable", sawRunning |-> ctx.isRunning,
                       failed |-> "none"]
       /\ facHist' = [FacForget(facHist) EXCEPT !.stopped = FALSE]
       /\ UNCHANGED <<isRecording, isPaused, timer, rec, engines, evQueue, recHist, ctx>>
     ELSE IF ~ctx.isRunning THEN
       /\ startCtl' = [pc |-> "awaitResume", sawRunning |-> FALSE, failed |-> "none"]
       /\ facHist' = [FacForget(facHist) EXCEPT !.stopped = FALSE]
       /\ UNCHANGED <<isRecording, isPaused, timer, rec, engines, evQueue, recHist,
                      micVars, ctx>>
     ELSE
       /\ UNCHANGED <<micVars, ctx>>
       /\ \E throws \in BOOLEAN : Delegate(throws, "none", ctx.state)
  /\ UNCHANGED <<now, sess, mounted, mimeType, effDeps, urls>>
  /\ FacCommit([fac EXCEPT !.error = NoError])

EnableMicrophone ==
  /\ UNCHANGED <<player, extVars>>
  /\ mounted /\ EffectsSettled
  /\ CallEnable("user")
  /\ facHist' = FacForget(facHist)
  /\ UNCHANGED <<timerVars, mounted, recVars, urls, ctx, startCtl>>
  /\ FacCommit(fac)

\* getUserMedia settles; a startRecording awaiting that enable() is then
\* ready to continue.
Awaited(r) == r.owner = "start" /\ startCtl.pc = "awaitEnable"

GumResolves ==
  /\ UNCHANGED <<player, extVars>>
  /\ EffectsSettled /\ startCtl.pc # "afterEnable"
  /\ \E r \in pending :
       /\ SettleResolve(r)
       /\ startCtl' = IF Awaited(r) THEN [startCtl EXCEPT !.pc = "afterEnable"]
                      ELSE startCtl
  /\ facHist' = FacForget(facHist)
  /\ UNCHANGED <<timerVars, mounted, recVars, ctx, urls>>
  /\ FacCommit(fac)

FacadeRejects ==
  { [isObject |-> TRUE, name |-> "NotAllowedError"],
    [isObject |-> FALSE, name |-> "NotAllowedError"] }

GumRejects ==
  /\ UNCHANGED <<player, extVars>>
  /\ EffectsSettled /\ startCtl.pc # "afterEnable"
  /\ \E r \in pending : \E err \in FacadeRejects :
       /\ SettleReject(r, err)
       /\ startCtl' = IF Awaited(r)
                        THEN [startCtl EXCEPT !.pc = "afterEnable", !.failed = "enable"]
                        ELSE startCtl
  /\ facHist' = FacForget(facHist)
  /\ UNCHANGED <<timerVars, mounted, recVars, ctx, urls>>
  /\ FacCommit(fac)

\* startRecording after `await enableMicrophone()`: a promise continuation,
\* which may run before the render that the enable caused has run its effects.
StartContinue ==
  /\ UNCHANGED <<player, extVars>>
  /\ startCtl.pc = "afterEnable"
  /\ micHist.promise = "fulfilled"
  /\ IF ~startCtl.sawRunning /\ ctx.state # "running" THEN
       /\ startCtl' = [startCtl EXCEPT !.pc = "awaitResume"]
       /\ facHist' = FacForget(facHist)
       /\ UNCHANGED <<isRecording, isPaused, timer, rec, engines, evQueue, recHist>>
     ELSE \E throws \in BOOLEAN : Delegate(throws, startCtl.failed, ctx.state)
  /\ UNCHANGED <<now, sess, micVars, mounted, mimeType, effDeps, ctx, urls>>
  /\ FacCommit(fac)

\* ctx.resume() settles under an awaiting startRecording: fulfilled, the
\* call goes on to start(); rejected, its catch block sets the error.
ResumeFulfils ==
  /\ UNCHANGED <<player, extVars>>
  /\ EffectsSettled
  /\ startCtl.pc = "awaitResume"
  /\ UNCHANGED <<now, sess, micVars, mounted, mimeType, effDeps, urls>>
  /\ ctx.state # "closed"
  /\ ctx' = Commit(CtxResumed(ctx), [ctx EXCEPT !.state = "running"])
  /\ \E throws \in BOOLEAN : Delegate(throws, startCtl.failed, "running")
  /\ FacCommit(fac)

ResumeRejects ==
  /\ UNCHANGED <<player, extVars>>
  /\ EffectsSettled
  /\ startCtl.pc = "awaitResume"
  /\ UNCHANGED <<now, sess, micVars, mounted, mimeType, effDeps, urls>>
  /\ startCtl' = StartIdle
  /\ facHist' = [FacForget(facHist) EXCEPT !.last = "startDone",
                                           !.failed = "resume"]
  /\ UNCHANGED <<ctx, isRecording, isPaused, timer, rec, engines, evQueue,
                 recHist>>
  /\ FacCommit([fac EXCEPT !.error = MsgFailedToStart])

ResumeSettles == ResumeFulfils \/ ResumeRejects

\* resumeAudioContext called from a user gesture, the platform resuming.
ResumeAudioContext ==
  /\ UNCHANGED <<player, extVars>>
  /\ mounted /\ EffectsSettled
  /\ ctx.state = "suspended"
  /\ ctx' = CtxResumed(ctx)
  /\ facHist' = FacForget(facHist)
  /\ UNCHANGED <<timerVars, micVars, mounted, recVars, fac, urls, startCtl>>

\* resumeAudioContext, the platform rejecting ctx.resume(): the function has
\* no catch block, so the promise it returned rejects.
ResumeAudioContextFails ==
  /\ UNCHANGED <<player, extVars>>
  /\ mounted /\ EffectsSettled
  /\ ctx.state = "suspended"
  /\ facHist' = [FacForget(facHist) EXCEPT !.abnormal = "rejected"]
  /\ UNCHANGED <<timerVars, micVars, mounted, recVars, fac, urls, ctx, startCtl>>

\* The consumer renders, or removes, the audio element audioRef is given to.
AttachAudio ==
  /\ mounted /\ EffectsSettled
  /\ player' = [player EXCEPT !.audioRef = ~@, !.elPlaying = FALSE, !.ended = FALSE]
  /\ facHist' = FacForget(facHist)
  /\ UNCHANGED <<timerVars, micVars, mounted, recVars, fac, urls, ctx, startCtl,
                 extVars>>

\* playPause of the facade.
PlayPauseCall ==
  /\ mounted /\ EffectsSettled
  /\ \E started \in BOOLEAN : player' = PlayPause(player, started)
  /\ facHist' = FacForget(facHist)
  /\ UNCHANGED <<timerVars, micVars, mounted, recVars, fac, urls, ctx, startCtl,
                 extVars>>

\* pauseRecording and resumeRecording of the facade: pause(), resume().
PauseRecording ==
  /\ mounted /\ EffectsSettled
  /\ RecPause
  /\ recHist' = Forget(recHist)
  /\ UNCHANGED <<now, sess, micVars, mounted, mimeType, effDeps, facVars, player, extVars>>

ResumeRecording ==
  /\ mounted /\ EffectsSettled
  /\ RecResume
  /\ recHist' = Forget(recHist)
  /\ UNCHANGED <<now, sess, micVars, mounted, mimeType, effDeps, facVars, player, extVars>>

\* stopRecording: awaits stop(); a null result is stored at once.
StopRecording ==
  /\ UNCHANGED <<player, extVars>>
  /\ mounted /\ EffectsSettled
  /\ \E c \in FlushChoices : RecStop(TRUE, c)
  /\ facHist' = FacForget(facHist)
  /\ UNCHANGED <<now, sess, micVars, mounted, mimeType, effDeps, ctx, startCtl>>
  /\ IF StopIdle(rec.recorderRef) THEN ApplyBlob(fac, NoBlob)
     ELSE UNCHANGED <<fac, urls>>

\* The next queued engine event reaches its handler; the stop event of a
\* stopRecording lets it store the blob.
FacadeDispatch ==
  /\ UNCHANGED <<player, extVars>>
  /\ evQueue # <<>>
  /\ evQueue' = Tail(evQueue)
  /\ UNCHANGED <<now, sess, micVars, mounted, mimeType, effDeps, ctx, startCtl>>
  /\ LET ev == Head(evQueue) IN
       IF ev.type = "data" THEN
         /\ DispatchData(ev)
         /\ facHist' = FacForget(facHist)
         /\ UNCHANGED <<fac, urls>>
       ELSE IF ev.type = "error" THEN
         /\ DispatchError(ev)
         /\ facHist' = FacForget(facHist)
         /\ UNCHANGED urls
         /\ FacCommit(fac)
       ELSE IF ev.type = "stop" /\ engines[ev.eng].onstop.kind = "B" THEN
         /\ DispatchStopB(ev)
         /\ IF ~engines[ev.eng].resolved /\ engines[ev.eng].onstop.facade
              THEN /\ facHist' = [FacForget(facHist) EXCEPT !.stopped = TRUE]
                   /\ ApplyBlob(fac, ResolvedBlob(ev.eng))
              ELSE /\ facHist' = FacForget(facHist)
                   /\ UNCHANGED <<fac, urls>>
       ELSE
         /\ DispatchFlag(ev)
         /\ facHist' = FacForget(facHist)
         /\ UNCHANGED <<fac, urls>>

FacadeReset ==
  /\ UNCHANGED extVars
  /\ mounted /\ EffectsSettled
  /\ UNCHANGED <<now, sess, micVars, mounted, mimeType, effDeps, engines, evQueue,
                 ctx, startCtl>>
  /\ ResetBody("reset")

\* disableMicrophone of the facade: disable() of the microphone, then reset().
DisableMicrophoneOverride ==
  /\ UNCHANGED extVars
  /\ mounted /\ EffectsSettled
  /\ CallDisable
  /\ UNCHANGED <<now, sess, mounted, mimeType, effDeps, engines, evQueue, ctx,
                 startCtl>>
  /\ ResetBody("disable")

\* The engine effect under the facade; oks tells whether the MediaRecorder
\* constructor may succeed, may throw.
EngineEffectWith(oks) ==
  /\ UNCHANGED <<player, extVars>>
  /\ \E c \in FlushChoices : \E ok \in oks : EngineEffect(c, ok)
  /\ facHist' = IF facHist.last \in {"reset", "disable"} THEN facHist
                ELSE FacForget(facHist)
  /\ UNCHANGED <<now, sess, micVars, mounted, mimeType, ctx, urls, startCtl>>
  /\ FacCommit(fac)

FacadeEngineEffect == EngineEffectWith(BOOLEAN)

\* The engine effect, the constructor succeeding.
EngineConstructed == EngineEffectWith({TRUE})

\* A second of wall time passes: ten periods of the timer's interval.
SecondPasses ==
  /\ UNCHANGED <<player, extVars>>
  /\ mounted
  /\ now < TickMs + MaxSeconds * MsPerSec
  /\ now' = now + MsPerSec
  /\ timer' = TimerTick(timer, now')
  /\ facHist' = FacForget(facHist)
  /\ UNCHANGED <<isRecording, isPaused, sess, micVars, mounted, recVars, fac, urls,
                 ctx, startCtl>>

\* The component unmounts: every hook's cleanup runs.
Unmount ==
  /\ UNCHANGED <<player, opts, autoEn, meter, fmt>>
  /\ autoPl' = AutoPlayCleanup(autoPl)
  /\ mounted
  /\ MicUnmounted
  /\ QueueRoom(2)
  /\ \E c \in FlushChoices :
       LET after == EngineCleanup(c) IN
       /\ c > 0 => CleanupStops(rec.recorderRef)
       /\ engines' = after.eng
       /\ evQueue' = after.ev
       /\ recHist' = [Forget(recHist) EXCEPT !.chunksIssued = IF c > 0 THEN c ELSE @]
  /\ rec' = [rec EXCEPT !.recorderRef = IF effDeps # NoStream THEN NoEngine ELSE @]
  /\ timer' = TimerCleanup(timer)
  /\ urls' = UrlUnmount(fac, urls)
  /\ ctx' = CtxClosed(ctx)
  /\ facHist' = FacForget(facHist)
  /\ UNCHANGED <<now, sess, isRecording, isPaused, mic, pending, micHist, mimeType,
                 effDeps, fac, startCtl>>

NextFacade ==
  \/ StartRecording \/ EnableMicrophone \/ GumResolves \/ GumRejects
  \/ StartContinue \/ ResumeSettles \/ ResumeAudioContext
  \/ StopRecording \/ PauseRecording \/ ResumeRecording \/ FacadeDispatch
  \/ Timeslice \/ Fails
  \/ FacadeReset \/ DisableMicrophoneOverride \/ FacadeEngineEffect
  \/ SecondPasses \/ Unmount

\* The facade's control functions with a player, while mounted.
NextControls ==
  \/ StartRecording \/ GumResolves \/ GumRejects
  \/ StartContinue \/ ResumeSettles \/ ResumeAudioContext
  \/ ResumeAudioContextFails
  \/ StopRecording \/ PauseRecording \/ ResumeRecording \/ FacadeDispatch
  \/ FacadeReset \/ DisableMicrophoneOverride \/ FacadeEngineEffect
  \/ SecondPasses \/ AttachAudio \/ PlayPauseCall

----------------------------------------------------------------------------
(* The facade's blob and player under the auto-play effect *)

PlayRest == <<sess, micVars, mounted, mimeType, effDeps, engines, evQueue, ctx,
              startCtl, opts, autoEn, meter, fmt>>

PlayEffect ==
  /\ mounted
  /\ ~AutoPlaySettled
  /\ autoPl' = AutoPlayEffect(autoPl, opts, fac, player, now)
  /\ UNCHANGED <<timerVars, micVars, mounted, recVars, facVars, player, opts,
                 autoEn, meter, fmt>>

\* stopRecording's continuation: setRecordedBlob(blob), the blob a new one
\* or null.
PlayStore ==
  /\ mounted /\ AutoPlaySettled
  /\ UNCHANGED <<timerVars, micVars, mounted, recVars, ctx, startCtl, player,
                 opts, autoEn, meter, fmt>>
  /\ \E b \in {NoBlob} \cup
                (IF Len(urls) < MaxRecordings
                   THEN {NewBlob(Len(urls) + 1, <<>>, mimeType)} ELSE {}) :
       ApplyBlob(fac, b)
  /\ facHist' = [FacForget(facHist) EXCEPT !.stopped = TRUE]
  /\ AutoPlayNotedWith(IF fac'.recordedBlob \notin {NoBlob, fac.recordedBlob}
                         THEN FALSE ELSE autoPl.userPaused)

PlayReset ==
  /\ mounted /\ AutoPlaySettled
  /\ UNCHANGED <<now, PlayRest>>
  /\ ResetBody("reset")
  /\ AutoPlayNoted

PlayToggle ==
  /\ mounted /\ AutoPlaySettled
  /\ \E started \in BOOLEAN : player' = PlayPause(player, started)
  /\ facHist' = FacForget(facHist)
  /\ UNCHANGED <<timerVars, micVars, mounted, recVars, fac, urls, ctx, startCtl,
                 opts, autoEn, meter, fmt>>
  /\ AutoPlayNotedWith(IF player.audioRef THEN player.isPlaying
                         ELSE autoPl.userPaused)

PlayAttach ==
  /\ mounted /\ AutoPlaySettled
  /\ player' = [player EXCEPT !.audioRef = ~@, !.elPlaying = FALSE, !.ended = FALSE]
  /\ facHist' = FacForget(facHist)
  /\ UNCHANGED <<timerVars, micVars, mounted, recVars, fac, urls, ctx, startCtl,
                 extVars>>

\* The pending timeout runs.
PlayTimeout ==
  /\ AutoPlaySettled
  /\ autoPl.timer # Null /\ now >= autoPl.timer
  /\ \E started \in BOOLEAN : player' = Commit(AutoPlayFire(player, started), player)
  /\ facHist' = FacForget(facHist)
  /\ UNCHANGED <<timerVars, micVars, mounted, recVars, fac, urls, ctx, startCtl,
                 opts, autoEn, meter, fmt>>
  /\ autoPl' = [autoPl EXCEPT !.timer = Null, !.fired = @ + 1,
                              !.played = IF player'.isPlaying /\ ~player.isPlaying
                                           THEN @ + 1 ELSE @,
                              !.since = IF Playable(fac', player') THEN @ ELSE Null]

\* The element plays to its end.  The facade drops handleAudioEnded: it is
\* not in the object the facade returns and no listener is added to the
\* element, so no setter runs.
PlayEnds ==
  /\ mounted /\ AutoPlaySettled
  /\ player.elPlaying
  /\ player' = [player EXCEPT !.elPlaying = FALSE, !.ended = TRUE]
  /\ facHist' = FacForget(facHist)
  /\ UNCHANGED <<timerVars, micVars, mounted, recVars, fac, urls, ctx, startCtl,
                 extVars>>

PlayTime ==
  /\ AutoPlaySettled \/ ~mounted
  /\ now < MaxPlaySteps * (AutoPlayDelayMs \div 2)
  /\ now' = now + AutoPlayDelayMs \div 2
  /\ timer' = TimerTick(timer, now')
  /\ UNCHANGED <<isRecording, isPaused, sess, micVars, mounted, recVars, facVars,
                 player, extVars>>

NextPlay ==
  PlayEffect \/ PlayStore \/ PlayReset \/ PlayToggle \/ PlayAttach \/ PlayTimeout
    \/ PlayEnds \/ PlayTime \/ Unmount

----------------------------------------------------------------------------
(* The level meter driven directly *)

MeterRest == <<timerVars, micVars, mounted, recVars, facVars, player, opts, autoEn,
               autoPl, fmt>>

\* The effect runs for a context and a stream, after the cleanup of the
\* run before it.
MeterStart ==
  /\ meter.built < MaxGraphs
  /\ \E n \in 1..MaxBins : meter' = MeterEffect(meter, n)
  /\ UNCHANGED MeterRest

\* A scheduled frame runs: the callback of graph g publishes the level and
\* schedules itself again.
Frame ==
  /\ \E g \in meter.frames :
       \E wave \in Waves(Len(meter.data)) :
         meter' = [MeterTick(meter, wave) EXCEPT !.published = g]
  /\ UNCHANGED MeterRest

\* The effect's cleanup, on the context or the stream going away or on the
\* unmount; the effect's body then returns at once.
MeterStop ==
  /\ meter.input
  /\ meter' = [MeterCleanup(meter) EXCEPT !.input = FALSE]
  /\ UNCHANGED MeterRest

NextMeter == MeterStart \/ Frame \/ MeterStop

----------------------------------------------------------------------------
(* The formatters applied to bounded inputs *)

FormatRest == <<timerVars, micVars, mounted, recVars, facVars, player, opts, autoEn,
                autoPl, meter>>

ApplyFormat ==
  /\ ~fmt.applied
  /\ fmt' = [fmt EXCEPT !.applied = TRUE,
                        !.formatTime = FormatTime(fmt.seconds),
                        !.formatDuration = FormatDuration(fmt.seconds)]
  /\ UNCHANGED FormatRest

NextInput ==
  /\ fmt.applied
  /\ \E s \in FormatInputs : fmt' = [FmtInit EXCEPT !.seconds = s]
  /\ UNCHANGED FormatRest

NextFormat == ApplyFormat \/ NextInput

----------------------------------------------------------------------------
(* The microphone under the facade's auto-enable effect *)

AutoRest == <<timerVars, mounted, recVars, facVars, player, opts, autoPl, meter, fmt>>

AutoEffect ==
  /\ AutoEnableEffect
  /\ UNCHANGED AutoRest

AutoUserEnable ==
  /\ mounted /\ AutoSettled
  /\ CallEnable("user")
  /\ AutoNoted
  /\ UNCHANGED AutoRest

AutoResolve ==
  /\ AutoSettled
  /\ \E r \in pending : SettleResolve(r)
  /\ AutoNoted
  /\ UNCHANGED AutoRest

AutoReject ==
  /\ AutoSettled
  /\ \E r \in pending : \E err \in FacadeRejects : SettleReject(r, err)
  /\ AutoNoted
  /\ UNCHANGED AutoRest

AutoDisable ==
  /\ mounted /\ AutoSettled
  /\ CallDisable
  /\ AutoNoted
  /\ UNCHANGED AutoRest

AutoPermission ==
  /\ mounted /\ AutoSettled
  /\ \E p \in PermissionValues : p # mic.permission /\ SetPermission(p)
  /\ AutoNoted
  /\ UNCHANGED <<pending, liveTracks, micHist>>
  /\ UNCHANGED AutoRest

NextAuto ==
  AutoEffect \/ AutoUserEnable \/ AutoResolve \/ AutoReject \/ AutoDisable
    \/ AutoPermission

----------------------------------------------------------------------------
(* Initial state and specifications *)

TimerStateInit ==
  /\ now = TickMs
  /\ isRecording = FALSE
  /\ isPaused = FALSE
  /\ timer = TimerInit
  /\ sess = SessInit

MicStateInit ==
  /\ mic = MicInit
  /\ pending = {}
  /\ liveTracks = {}
  /\ micHist = MicHistInit

RecStateInit ==
  /\ rec = RecInit
  /\ effDeps = NoStream
  /\ engines = <<>>
  /\ evQueue = <<>>
  /\ recHist = RecHistInit

FacStateInit ==
  /\ fac = FacInit
  /\ urls = <<>>
  /\ ctx = CtxInit
  /\ startCtl = StartIdle
  /\ facHist = FacHistInit
  /\ player = PlayerInit
  /\ autoEn = AutoEnInit
  /\ autoPl = AutoPlInit
  /\ meter = MeterInit

Hooks ==
  TimerStateInit /\ MicStateInit /\ mounted = TRUE /\ RecStateInit /\ FacStateInit

Components == Hooks /\ fmt = FmtInit

Init == Components /\ mimeType = DefaultMimeType /\ opts = DefaultOptions

\* The recorder hook with either option value.
InitRec == Components /\ mimeType \in MimeTypes /\ opts = DefaultOptions

NextTimer == TStart \/ TPause \/ TResume \/ TStop \/ TReset \/ Tick

SpecTimer == Init /\ [][NextTimer]_vars

SpecMic == Init /\ [][NextMic]_vars

SpecRec == InitRec /\ [][NextRec]_vars

SpecFacade == Init /\ [][NextFacade]_vars

SpecControls == Init /\ [][NextControls]_vars

\* Either setting of autoEnableMicrophone.
InitAuto ==
  /\ Components /\ mimeType = DefaultMimeType
  /\ opts \in {[DefaultOptions EXCEPT !.autoEnableMicrophone = b] : b \in BOOLEAN}

SpecAuto == InitAuto /\ [][NextAuto]_vars

\* Either setting of autoPlayAfterRecording.
InitPlay ==
  /\ Components /\ mimeType = DefaultMimeType
  /\ opts \in {[DefaultOptions EXCEPT !.autoPlayAfterRecording = b] : b \in BOOLEAN}

SpecPlay == InitPlay /\ [][NextPlay]_vars

SpecMeter == Init /\ [][NextMeter]_vars

\* An input below an hour, not yet formatted.
InitFormat ==
  /\ Hooks
  /\ mimeType = DefaultMimeType /\ opts = DefaultOptions
  /\ fmt \in {[FmtInit EXCEPT !.seconds = s] : s \in {i \in FormatInputs : i < SecPerHour}}

SpecFormat == InitFormat /\ [][NextFormat]_vars

\* startRecording on a platform that grants the stream, resumes the context
\* and constructs the engine: the consumer calls startRecording and
\* resumeAudioContext, nothing else.  React runs a pending effect, the event
\* loop a pending continuation and a queued event.
NextStart ==
  \/ StartRecording \/ GumResolves \/ StartContinue \/ ResumeFulfils
  \/ ResumeAudioContext \/ EngineConstructed \/ FacadeDispatch
  \/ Timeslice \/ SecondPasses

FairStart ==
  /\ WF_vars(GumResolves) /\ WF_vars(StartContinue) /\ WF_vars(ResumeFulfils)
  /\ WF_vars(EngineConstructed) /\ WF_vars(FacadeDispatch)

SpecStart == InitRec /\ [][NextStart]_vars /\ FairStart

Next == NextFacade

Spec == Init /\ [][Next]_vars

----------------------------------------------------------------------------
(* Recording timer *)

Running == isRecording /\ ~isPaused

\* C2: elapsedTime never decreases from one observation to the next while
\* the timer is Running with no reset in between, and does not change while
\* the timer is Paused.
C2_MonotoneWhileRunning ==
  [][ /\ (Running /\ Running' /\ timer'.startTimeRef = timer.startTimeRef)
         => timer'.elapsedTime >= timer.elapsedTime
      /\ (isPaused /\ isPaused' /\ timer'.startTimeRef = timer.startTimeRef)
         => timer'.elapsedTime = timer.elapsedTime ]_vars

\* C3: in a session of wall time T of which P was paused, the reported
\* elapsedTime is floor((T - P) / 1000) as of the last tick.
SessActive == now - sess.t0 - sess.paused

C3_PauseAccounting ==
  (isRecording /\ sess.t0 # Null) =>
     \/ timer.elapsedTime = SessActive \div MsPerSec
     \/ timer.elapsedTime = (SessActive - TickMs) \div MsPerSec

----------------------------------------------------------------------------
(* Microphone manager *)

\* C5: at most one live capture stream, and it is the one the manager
\* references: no stream with unstopped tracks is unreferenced.
C5_OneLiveStream ==
  mounted => \A s \in liveTracks : s = mic.streamRef

\* C9: a rejected stream request leaves isEnabled false and the error
\* field at the message of the rejection's category, and enable() fulfils.
C9_EnableFailure ==
  (mounted /\ micHist.last = "reject") =>
     /\ micHist.promise = "fulfilled"
     /\ ~mic.isEnabled
     /\ mic.error =
          IF micHist.lastErr.isObject
             /\ micHist.lastErr.name \in {"NotAllowedError", "SecurityError"}
            THEN MsgPermissionDenied
          ELSE IF micHist.lastErr.isObject /\ micHist.lastErr.name = "NotFoundError"
            THEN MsgNotFound
          ELSE IF micHist.lastErr.isObject /\ micHist.lastErr.name = "NotReadableError"
            THEN MsgNotReadable
          ELSE MsgGeneric

C9_Witness ==
  /\ mounted
  /\ micHist.last = "reject"
  /\ micHist.lastErr = [isObject |-> TRUE, name |-> "SecurityError"]
  /\ mic.error = MsgPermissionDenied
  /\ ~mic.isEnabled

----------------------------------------------------------------------------
(* Recorder *)

\* C1: the blob a stop() on a recording or paused engine resolves with is
\* the in-order concatenation of every non-empty chunk the engine delivered
\* for the session, up to its stop event, tagged with the configured type.
C1_StopBlobHasAllChunks ==
  (recHist.last = "stopResolved") =>
     /\ recHist.blob.parts = recHist.delivered
     /\ recHist.blob.type = mimeType

\* C10: stop() with no engine or an inactive one resolves null and changes
\* neither an engine, the queued events nor the chunk list.
C10_StopIdleStep ==
  /\ recHist'.stopCalls = recHist.stopCalls + 1
  /\ \/ rec.recorderRef = NoEngine
     \/ engines[rec.recorderRef].state = "inactive"

C10_StopIdleResolvesNull ==
  [][C10_StopIdleStep =>
       /\ recHist'.stopResult = "null"
       /\ recHist'.blob = NoBlob
       /\ engines' = engines
       /\ evQueue' = evQueue
       /\ rec' = rec
       /\ isRecording' = isRecording /\ isPaused' = isPaused]_vars

C10_Witness ==
  /\ recHist.last = "stopIdle"
  /\ recHist.stopResult = "null"
  /\ rec.recorderRef # NoEngine
  /\ rec.chunks # <<>>

----------------------------------------------------------------------------
(* Facade *)

\* C4: once stopRecording has resolved with its blob, and until the next
\* startRecording or reset, elapsedTime no longer changes.
C4_FrozenAfterStop ==
  [][(facHist.stopped /\ facHist'.stopped)
       => timer'.elapsedTime = timer.elapsedTime]_vars

\* C6: at most one object URL the facade created is un-revoked, none is
\* revoked twice, and after the unmount every one has been revoked once.
LiveUrls == {u \in 1 .. Len(urls) : urls[u] = 0}

C6_UrlLifecycle ==
  /\ Cardinality(LiveUrls) <= 1
  /\ \A u \in 1 .. Len(urls) : urls[u] <= 1
  /\ ~mounted => LiveUrls = {}

C6_Witness ==
  /\ ~mounted
  /\ Len(urls) >= 2
  /\ \A u \in 1 .. Len(urls) : urls[u] = 1

\* C7: when startRecording delegates to the recorder's start, the
\* microphone is enabled with a live stream and the context is running.
C7_StartPreconditions ==
  (mounted /\ facHist.last = "startDone" /\ facHist.delegated) =>
     /\ facHist.micAtStart
     /\ facHist.ctxAtStart

\* C8: a startRecording in which the enable, the context resume or the
\* recorder start failed leaves the facade's error at the generic text.
C8_GenericStartError ==
  (mounted /\ facHist.last = "startDone" /\ facHist.failed # "none") =>
     fac.error = MsgFailedToStart

\* C11: after reset() and the effects it causes, the blob and its URL are
\* null, nothing plays, elapsedTime is 0, the chunk list is empty and the
\* visible error is null.
C11_ResetClearsAll ==
  (mounted /\ facHist.last = "reset" /\ EffectsSettled) =>
     /\ fac.recordedBlob = NoBlob
     /\ fac.audioUrl = NoUrl
     /\ ~player.isPlaying
     /\ timer.elapsedTime = 0
     /\ rec.chunks = <<>>
     /\ fac.error = NoError

\* C12: an error the microphone or the recorder raises becomes the visible
\* error (the later raised of the two wins), and with both of them empty the
\* visible error is null or a text the facade raised itself.
C12_LastWriteWins ==
  [][mounted =>
       /\ (rec'.error # NoError /\ rec'.error # rec.error)
            => fac'.error = rec'.error
       /\ (mic'.error # NoError /\ mic'.error # mic.error)
            => fac'.error = mic'.error
       /\ (mic'.error = NoError /\ rec'.error = NoError)
            => fac'.error \in {NoError, MsgFailedToStart}]_vars

\* C13: no control function of the facade throws or returns a promise that
\* rejects.
C13_NoAbnormalCompletion ==
  facHist.abnormal = "none"

----------------------------------------------------------------------------
(* Auto-enable *)

\* C15: the auto-enable effect issues one enable for each time its condition
\* (option set, permission 'prompt', microphone disabled) becomes true, and
\* none with the option off or under another permission.
C15_AutoEnableOncePerTransition ==
  /\ autoEn.triggers <= autoEn.transitions
  /\ AutoSettled => autoEn.triggers = autoEn.transitions
  /\ autoEn.triggers > 0 =>
        /\ opts.autoEnableMicrophone
        /\ autoEn.at = <<FALSE, "prompt">>

C15_Witness ==
  /\ AutoSettled
  /\ autoEn.triggers = 2
  /\ autoEn.transitions = 2
  /\ mic.permission = "granted"

----------------------------------------------------------------------------
(* Auto-play *)

C16_TimeoutStep ==
  autoPl'.fired # autoPl.fired =>
    /\ opts.autoPlayAfterRecording
    /\ fac.recordedBlob # NoBlob
    /\ ~player.isPlaying
    /\ autoPl.since # Null
    /\ now - autoPl.since >= AutoPlayDelayMs

C16_NonePendingOtherwise ==
  (AutoPlaySettled /\ autoPl.timer # Null) =>
     (opts.autoPlayAfterRecording /\ fac.recordedBlob # NoBlob /\ ~player.isPlaying)

\* C16: the auto-play timeout runs only with the option set and after a blob
\* has been stored with the player not playing for the whole delay; once the
\* blob is cleared or the player plays, no timeout is pending.
C16_AutoPlayAfterDelay == [][C16_TimeoutStep /\ C16_NonePendingOtherwise']_vars

C16_Witness ==
  /\ autoPl.fired = 1
  /\ player.isPlaying
  /\ player.elPlaying
  /\ fac.recordedBlob # NoBlob

----------------------------------------------------------------------------
(* Level meter *)

Silent(data) == \A i \in 1..Len(data) : data[i] = SampleMidpoint

\* C17: for every buffer of byte samples the sum of squared deviations is at
\* most N * 128^2, so the published level lies in 0..1, and a buffer of
\* samples all at the midpoint publishes level 0.
C17_LevelInRange ==
  /\ meter.sumSquares >= 0
  /\ meter.sumSquares <= Len(meter.data) * SampleMidpoint * SampleMidpoint
  /\ meter.level >= 0
  /\ meter.level <= LevelScale
  /\ (meter.raf /\ Silent(meter.data)) => (meter.sumSquares = 0 /\ meter.level = 0)

C17_Witness ==
  /\ meter.raf
  /\ Len(meter.data) > 1
  /\ \A i \in 1..Len(meter.data) : meter.data[i] = 0
  /\ meter.sumSquares = Len(meter.data) * SampleMidpoint * SampleMidpoint
  /\ meter.level = LevelScale

----------------------------------------------------------------------------
(* Formatting *)

DigitChars == <<"0", "1", "2", "3", "4", "5", "6", "7", "8", "9">>

Digit(d) == DigitChars[d + 1]

\* n in decimal without padding, for n >= 0
RECURSIVE Decimal(_)
Decimal(n) == IF n < 10 THEN Digit(n) ELSE Decimal(n \div 10) \o Digit(n % 10)

\* The two decimal digits of n
TwoDigits(n) == Digit((n \div 10) % 10) \o Digit(n % 10)

\* C18: formattedTime is the HH:MM:SS rendering of elapsedTime, each field
\* two digits: floor(s/3600), floor((s mod 3600)/60), s mod 60.
C18_FormattedTimeIsHHMMSS ==
  LET s == timer.elapsedTime IN
  FormattedTime(timer) =
    TwoDigits(s \div SecPerHour) \o ":" \o TwoDigits((s % SecPerHour) \div SecPerMin)
      \o ":" \o TwoDigits(s % SecPerMin)

\* C19: formatDuration(s) is minutes, a colon and two-digit seconds below an
\* hour, and hours, two-digit minutes and two-digit seconds from an hour up;
\* formatDuration(120) is "2:00".
C19_FormatDuration ==
  fmt.applied =>
    LET s == fmt.seconds
        h == s \div SecPerHour
        m == (s % SecPerHour) \div SecPerMin
        sec == s % SecPerMin
    IN /\ s < SecPerHour => fmt.formatDuration = Decimal(m) \o ":" \o TwoDigits(sec)
       /\ s >= SecPerHour =>
            fmt.formatDuration = Decimal(h) \o ":" \o TwoDigits(m) \o ":" \o TwoDigits(sec)
       /\ s = 2 * SecPerMin => fmt.formatDuration = "2:00"

C19_Witness ==
  /\ fmt.applied
  /\ fmt.seconds = 2 * SecPerMin
  /\ fmt.formatDuration = "2:00"

----------------------------------------------------------------------------
(* Chunks of the current session *)

\* A data event is dispatched while a start event queued behind it waits:
\* its chunk was flushed before that start() was called.
C20_EarlierDataStep ==
  /\ evQueue # <<>>
  /\ evQueue' = Tail(evQueue)
  /\ Head(evQueue).type = "data"
  /\ Head(evQueue).chunk > 0
  /\ \E i \in 2..Len(evQueue) : evQueue[i].type = "start"

\* C20: once start() has begun a new recording, no chunk flushed for an
\* earlier one enters the chunk list, even when its data event is dispatched
\* after the start call.
C20_ChunksOfCurrentSession ==
  [][C20_EarlierDataStep =>
       \A i \in 1..Len(rec'.chunks) : rec'.chunks[i] # Head(evQueue).chunk]_vars

----------------------------------------------------------------------------
(* Recorder handlers outside their state *)

Active(e) == e # NoEngine /\ engines[e].state \in {"recording", "paused"}

\* C21: start() called while the engine is recording or paused leaves the
\* engine state, the chunk list, the pause flag and the error unchanged.
C21_StartOnlyWhenIdle ==
  [][(recHist'.last = "start" /\ mounted /\ Active(rec.recorderRef)) =>
       /\ engines' = engines
       /\ rec'.chunks = rec.chunks
       /\ isPaused' = isPaused
       /\ rec'.error = rec.error]_vars

\* C22: pause() changes nothing unless the engine is recording, resume()
\* nothing unless it is paused, both nothing without an engine; neither
\* changes the chunk list or the error.
C22_PauseResumeNoOps ==
  [][LET r == rec.recorderRef
         state == IF r = NoEngine THEN "none" ELSE engines[r].state
         same == /\ engines' = engines /\ evQueue' = evQueue /\ rec' = rec
                 /\ isRecording' = isRecording /\ isPaused' = isPaused
                 /\ timer' = timer
     IN /\ (recHist'.last = "pause" /\ state # "recording") => same
        /\ (recHist'.last = "resume" /\ state # "paused") => same
        /\ recHist'.last \in {"pause", "resume"} =>
             (rec'.chunks = rec.chunks /\ rec'.error = rec.error)]_vars

\* pause() met a paused engine: the pause event of the earlier pause() has
\* been handled, and nothing is queued.
C22_Witness ==
  /\ recHist.last = "pause"
  /\ rec.recorderRef # NoEngine
  /\ engines[rec.recorderRef].state = "paused"
  /\ isPaused
  /\ evQueue = <<>>
  /\ rec.chunks # <<>>

\* C24: the recorder's error, once set, becomes null only by start().
C24_ErrorSticky ==
  [][(rec.error # NoError /\ rec'.error = NoError) => recHist'.last = "start"]_vars

\* reset() ran with the error set.
C24_Witness ==
  /\ recHist.last = "reset"
  /\ rec.error = MsgRecordingError
  /\ mounted

----------------------------------------------------------------------------
(* Engine swap *)

ActiveEngines == {e \in DOMAIN engines : engines[e].state # "inactive"}

\* C23: at most one engine the recorder created is recording or paused, and
\* it is the one the recorder holds: an engine replaced by the effect, or
\* left at the unmount, has been stopped.
C23_OneActiveEngine ==
  /\ Cardinality(ActiveEngines) <= 1
  /\ \A e \in ActiveEngines : mounted /\ e = rec.recorderRef

\* The effect stopped a recording engine and the next one records.
C23_Witness ==
  /\ Len(engines) = 2
  /\ engines[1].stoppedBy = "cleanup"
  /\ engines[2].state = "recording"
  /\ rec.recorderRef = 2

----------------------------------------------------------------------------
(* Timer reset *)

\* C25: reset() leaves elapsedTime 0 and the start timestamp, the pause
\* total and the pause timestamp cleared, in whatever state it is called;
\* afterwards the timestamps held and the pause time subtracted lie after
\* the reset.
C25_ResetClearsPauseDebt ==
  /\ sess.justReset =>
        /\ timer.elapsedTime = 0
        /\ timer.startTimeRef = Null
        /\ timer.pausedTimeRef = 0
        /\ timer.pauseStartTimeRef = Null
  /\ sess.resetAt # Null =>
        /\ timer.startTimeRef # Null => timer.startTimeRef >= sess.resetAt
        /\ timer.pauseStartTimeRef # Null => timer.pauseStartTimeRef >= sess.resetAt
        /\ timer.pausedTimeRef <= now - sess.resetAt

\* A reset while Paused met pause time; the timer then ran for a second.
C25_Witness ==
  /\ sess.resetAt # Null
  /\ sess.cleared
  /\ Running
  /\ timer.startTimeRef # Null
  /\ timer.elapsedTime = 1
  /\ timer.pausedTimeRef = 0

\* C29: every published elapsedTime is at least 0.
C29_ElapsedNonNegative == timer.elapsedTime >= 0

----------------------------------------------------------------------------
(* Microphone disable and teardown *)

\* C26: after disable() the stream it held has no live track, stream is
\* null and isEnabled false; after the unmount no stream the manager
\* acquired has a live track.
C26_DisableAndTeardown ==
  /\ (mounted /\ micHist.last = "disable") =>
        (mic.stream = NoStream /\ ~mic.isEnabled /\ mic.streamRef = NoStream)
  /\ ~mounted => liveTracks = {}

----------------------------------------------------------------------------
(* Level meter graph *)

\* C27: at most one graph is connected and has a frame scheduled, the one
\* the refs hold; a level is published only by that graph's callback while
\* a context and a stream are given; without them no graph is left and the
\* level is 0.
C27_OneGraph ==
  /\ meter.connected \subseteq {meter.graph} \ {NoGraph}
  /\ meter.frames \subseteq {meter.graph} \ {NoGraph}
  /\ meter.published # NoGraph => (meter.input /\ meter.published = meter.graph)
  /\ ~meter.input =>
        (meter.level = 0 /\ meter.connected = {} /\ meter.frames = {} /\ ~meter.raf)

\* The second graph publishes after the first was torn down.
C27_Witness ==
  /\ meter.built = 2
  /\ meter.graph = 2
  /\ meter.published = 2
  /\ meter.level > 0
  /\ meter.connected = {2}
  /\ meter.frames = {2}

----------------------------------------------------------------------------
(* The recorder's flags and the engine *)

\* No engine event waits and the engine effect has run for the stream.
Quiescent == mounted /\ EffectsSettled /\ evQueue = <<>>

\* C28: in every quiescent state, so also once a stop() has resolved and
\* the stop event has been handled, isRecording is true only if the engine
\* held is recording or paused, and isPaused only if isRecording.
C28_RecordingFlagTracksEngine ==
  Quiescent =>
    /\ isRecording => Active(rec.recorderRef)
    /\ ~Active(rec.recorderRef) => ~isPaused

\* C30: in every quiescent state isPaused is true exactly when the engine
\* held is paused.
C30_PauseFlagTracksEngine ==
  Quiescent =>
    (isPaused <=> (rec.recorderRef # NoEngine
                     /\ engines[rec.recorderRef].state = "paused"))

----------------------------------------------------------------------------
(* startRecording from a disabled microphone *)

\* C31: a startRecording called with the microphone disabled, on a platform
\* that grants the stream and resumes the context, leads to the engine of
\* the granted stream recording with isRecording true, no second call made
\* (unless the engine's own start() threw, which the error field then tells).
C31_StartEventuallyRecords ==
  (startCtl.pc = "awaitEnable")
    ~> (\/ /\ isRecording
           /\ rec.recorderRef # NoEngine
           /\ engines[rec.recorderRef].state = "recording"
           /\ engines[rec.recorderRef].stream = mic.streamRef
        \/ rec.error = MsgRecStartFailed)

----------------------------------------------------------------------------
(* disable() and the unmount racing a pending enable() *)

\* C32: when the last pending getUserMedia request settles after a disable()
\* that no enable() followed, or after the unmount, the manager holds no
\* stream, isEnabled is false and no acquired stream has a live track.
C32_DisableWinsOverPendingEnable ==
  [][(/\ pending # {} /\ pending' = {}
      /\ (micHist.last = "disable" \/ ~mounted))
       => /\ mic'.streamRef = NoStream
          /\ mic'.stream = NoStream
          /\ ~mic'.isEnabled
          /\ liveTracks' = {}]_vars

----------------------------------------------------------------------------
(* The microphone's fields among themselves *)

\* C33: while mounted with no enable() pending, isEnabled is true exactly
\* when stream is non-null, and stream is the stream streamRef holds.
C33_MicStateConsistent ==
  (mounted /\ pending = {}) =>
     /\ mic.isEnabled <=> mic.stream # NoStream
     /\ mic.stream = mic.streamRef

----------------------------------------------------------------------------
(* disableMicrophone and the auto-enable effect *)

\* C34: after disableMicrophone, with no request in flight and until the
\* consumer calls enableMicrophone or startRecording, the microphone stays
\* disabled and no stream is requested.
C34_DisableIsDurable ==
  [][(mounted /\ micHist.last = "disable" /\ pending = {})
       => /\ ~mic'.isEnabled
          /\ \A r \in pending' : r.owner # "auto"]_vars

----------------------------------------------------------------------------
(* stopRecording with nothing recording *)

\* C35: a stopRecording that finds the engine idle or absent leaves
\* recordedBlob and audioUrl as they were and revokes no object URL.
C35_IdleStopKeepsRecording ==
  [][recHist'.last = "stopIdle"
       => /\ fac'.recordedBlob = fac.recordedBlob
          /\ fac'.audioUrl = fac.audioUrl
          /\ urls' = urls]_vars

----------------------------------------------------------------------------
(* Auto-play and the consumer's pause *)

\* C36: the auto-play timeout starts playback at most once per recording
\* stored, and after the consumer paused playback with playPause nothing
\* plays until the consumer calls playPause again or a recording is stored.
C36_AutoPlayRespectsPause ==
  /\ autoPl.played <= Len(urls)
  /\ autoPl.userPaused => ~player.isPlaying

----------------------------------------------------------------------------
(* The playing flag and the element *)

\* C37: once the audio element has played to its end, and until the next
\* playPause, isPlaying is false (so that the next playPause plays again).
C37_PlayingFlagTracksElement ==
  player.ended => ~player.isPlaying

----------------------------------------------------------------------------
(* audioUrl and recordedBlob *)

\* C38: while mounted with the effects settled, audioUrl is non-null exactly
\* when recordedBlob is, and a non-null audioUrl is the one un-revoked URL,
\* created from the blob recordedBlob holds.
C38_UrlMirrorsBlob ==
  (mounted /\ EffectsSettled) =>
     /\ fac.audioUrl # NoUrl <=> fac.recordedBlob # NoBlob
     /\ fac.audioUrl = NoUrl => LiveUrls = {}
     /\ fac.audioUrl # NoUrl =>
          /\ LiveUrls = {fac.audioUrl}
          /\ fac.urlBlob = fac.recordedBlob.id

\* A second recording replaced the first: its URL is the live one.
C38_Witness ==
  /\ mounted /\ EffectsSettled
  /\ Len(urls) = 2
  /\ fac.audioUrl = 2
  /\ fac.recordedBlob.id = 2
  /\ urls[1] = 1

============================================================================
